---- MODULE Spec2Model ----
(***************************************************************************)
(* Two batch scripts: 1_patient_data_cleaner.py (script 1) and             *)
(* 2_med_dosage_calculator.py (script 2).  Each run is                     *)
(* load_patient_data -> transform -> print loop inside main().             *)
(*                                                                         *)
(* Python objects live in `heap` (a sequence; a reference is an index), so *)
(* that in-place mutation (script 1) and dict.copy() (script 2) are        *)
(* distinguishable.  A dict is a function from its keys to values.         *)
(*                                                                         *)
(* Numbers of script 2 are fixed-point, in thousandths (Scale): 70 kg is   *)
(* 70000, the factor 0.001 is 1, 350 mg is 350000.  Floating-point         *)
(* rounding is not modelled.                                               *)
(***************************************************************************)
EXTENDS Integers, Sequences, FiniteSets, TLC

VARIABLES
    script,            \* which script runs: 1 or 2
    file,              \* the input file: [kind, content]
    pc,                \* position inside main()
    heap,              \* the dict objects, by reference
    patients,          \* main's `patients`: a list of references
    transformed,       \* main's cleaned_patients / patients_with_dosages
    total_medication,  \* main's total_medication (script 2)
    bound,             \* the names main() has assigned so far
    stdout,            \* the lines printed so far
    err                \* the uncaught exception, "" when none

vars == <<script, file, pc, heap, patients, transformed, total_medication, bound,
          stdout, err>>

\* Longest input list.
MaxPatients == 2

\* Fixed-point unit of script 2's numbers: the finest factor is 0.001.
Scale == 1000

Range(s) == {s[i] : i \in 1..Len(s)}

\* dict[key] = value
SetItem(d, key, value) == [k \in DOMAIN d \cup {key} |-> IF k = key THEN value ELSE d[k]]

-----------------------------------------------------------------------------
(* Script 2 values: JSON/Python values as [tag, n, s, l]. *)

V(tag, n, s, l) == [tag |-> tag, n |-> n, s |-> s, l |-> l]
Num(n)  == V("num", n, "", <<>>)
Str(s)  == V("str", 0, s, <<>>)
Bool(b) == V("bool", IF b THEN 1 ELSE 0, "", <<>>)
None    == V("none", 0, "", <<>>)
List(l) == V("list", 0, "", l)

\* dict.get(key, default)
Get(d, key, default) == IF key \in DOMAIN d THEN d[key] ELSE default

\* isinstance(v, (int, float)): bool is a subclass of int
IsIntOrFloat(v) == v.tag \in {"num", "bool"}

\* isinstance(v, bool)
IsBool(v) == v.tag = "bool"

\* the numeric value of an int, float or bool, in thousandths
NumVal(v) == IF v.tag = "bool" THEN v.n * Scale ELSE v.n

\* Python truthiness
Truthy(v) ==
    CASE v.tag = "none" -> FALSE
      [] v.tag = "str"  -> v.s /= ""
      [] v.tag = "list" -> v.l /= <<>>
      [] OTHER          -> v.n /= 0

DOSAGE_FACTORS ==
    [m \in {"epinephrine", "amiodarone", "lorazepam", "fentanyl", "lisinopril",
            "metformin", "oseltamivir", "sumatriptan", "albuterol", "ibuprofen",
            "sertraline", "levothyroxine"} |->
        CASE m = "epinephrine"   -> 10
          [] m = "amiodarone"    -> 5000
          [] m = "lorazepam"     -> 50
          [] m = "fentanyl"      -> 1
          [] m = "lisinopril"    -> 500
          [] m = "metformin"     -> 10000
          [] m = "oseltamivir"   -> 2500
          [] m = "sumatriptan"   -> 1000
          [] m = "albuterol"     -> 100
          [] m = "ibuprofen"     -> 5000
          [] m = "sertraline"    -> 1500
          [] m = "levothyroxine" -> 20]

LOADING_DOSE_MEDICATIONS == {"amiodarone", "lorazepam", "fentynal"}

\* DOSAGE_FACTORS.get(medication, 0)
Factor(medication) ==
    IF medication.tag = "str" /\ medication.s \in DOMAIN DOSAGE_FACTORS
    THEN DOSAGE_FACTORS[medication.s] ELSE 0

\* weight * factor, both in thousandths
Mul(a, b) == (a * b) \div Scale

\* the weight check of calculate_dosage
WeightInvalid(weight) ==
    weight.tag = "none" \/ ~IsIntOrFloat(weight) \/ NumVal(weight) <= 0

\* A loading dose for every first dose, whatever the medication.
LoadingDoseAnyMedication(is_first_dose, medication) == Truthy(is_first_dose)

\* is_first_dose and medication in LOADING_DOSE_MEDICATIONS
LoadingDoseApplies(is_first_dose, medication) ==
    Truthy(is_first_dose) /\ medication.tag = "str" /\ medication.s \in LOADING_DOSE_MEDICATIONS

\* the warnings chain of calculate_dosage
Warnings(medication) ==
    CASE medication = Str("epinephrine") -> <<"Monitor for arrhythmias">>
      [] medication = Str("amiodarone")  -> <<"Monitor for hypotension">>
      [] medication = Str("fentanyl")    -> <<"Monitor for respiratory depression">>
      [] OTHER                           -> <<>>

\* No copy: the same dict object under a second name.
DictAlias(h, p) == [heap |-> h, ref |-> p]

\* patient.copy(): a new dict object with the same items
DictCopy(h, p) == [heap |-> Append(h, h[p]), ref |-> Len(h) + 1]

\* calculate_dosage(patient) on heap h: the heap afterwards, the reference
\* returned (0 when it raises) and the exception raised ("" when none).
calculate_dosage(h, p) ==
    LET cp            == DictCopy(h, p)
        h1            == cp.heap
        c             == cp.ref
        patient       == h1[p]
        weight        == Get(patient, "weight", None)
        medication    == Get(patient, "medication", None)
        is_first_dose == Get(patient, "is_first_dose", Bool(FALSE))
        Raise(e)      == [heap |-> h1, ret |-> 0, err |-> e]
    IN  IF WeightInvalid(weight)
        THEN Raise("ValueError: Invalid or missing 'weight'")
        ELSE IF ~Truthy(medication)
        THEN Raise("ValueError: Missing 'medication'")
        ELSE IF is_first_dose.tag = "none"
        THEN Raise("ValueError: Missing 'is_first_dose' key")
        ELSE IF ~IsBool(is_first_dose)
        THEN Raise("ValueError: Invalid value for 'is_first_dose'")
        ELSE
            LET base_dosage  == Mul(NumVal(weight), Factor(medication))
                applied      == LoadingDoseApplies(is_first_dose, medication)
                final_dosage == IF applied THEN base_dosage * 2 ELSE base_dosage
                d1 == SetItem(h1[c], "base_dosage", Num(base_dosage))
                d2 == SetItem(d1, "loading_dose_applied", Bool(applied))
                d3 == SetItem(d2, "final_dosage", Num(final_dosage))
                d4 == SetItem(d3, "warnings", List(Warnings(medication)))
            IN  [heap |-> [h1 EXCEPT ![c] = d4], ret |-> c, err |-> ""]

\* A printed line: what was printed and, for a per-record line, the record.
Line(kind, ref) == [kind |-> kind, ref |-> ref]

RECURSIVE AllDosagesLoop(_, _, _, _, _, _)
AllDosagesLoop(h, ps, i, acc, total, out) ==
    IF i > Len(ps)
    THEN [heap |-> h, ret |-> acc, total |-> total, out |-> out, err |-> ""]
    ELSE
        LET r == calculate_dosage(h, ps[i])
        IN  IF r.err /= ""
            THEN [heap |-> r.heap, ret |-> <<>>, total |-> 0, out |-> out, err |-> r.err]
            ELSE
                LET d    == r.heap[r.ret]
                    has  == "final_dosage" \in DOMAIN d
                    t1   == IF has THEN total + NumVal(d["final_dosage"]) ELSE total
                    out1 == IF has THEN out
                            ELSE Append(out, Line("Warning: 'final_dosage' key is missing", r.ret))
                IN  IF ~has
                    THEN [heap |-> r.heap, ret |-> <<>>, total |-> 0, out |-> out1,
                          err |-> "KeyError: 'final_dosage'"]
                    ELSE AllDosagesLoop(r.heap, ps, i + 1, Append(acc, r.ret),
                                        t1 + NumVal(d["final_dosage"]), out1)

\* A loop that catches a record's failure and goes on with the next record.
RECURSIVE AllDosagesSkipLoop(_, _, _, _, _, _)
AllDosagesSkipLoop(h, ps, i, acc, total, out) ==
    IF i > Len(ps)
    THEN [heap |-> h, ret |-> acc, total |-> total, out |-> out, err |-> ""]
    ELSE
        LET r == calculate_dosage(h, ps[i])
        IN  IF r.err /= ""
            THEN AllDosagesSkipLoop(r.heap, ps, i + 1, acc, total, out)
            ELSE AllDosagesSkipLoop(r.heap, ps, i + 1, Append(acc, r.ret),
                                    total + 2 * NumVal(r.heap[r.ret]["final_dosage"]), out)

calculate_all_dosages_skipping(h, ps) == AllDosagesSkipLoop(h, ps, 1, <<>>, 0, <<>>)

\* calculate_all_dosages(patients): the heap afterwards, the list and the total
\* returned, the lines printed, and the exception raised ("" when none).
calculate_all_dosages(h, ps) == AllDosagesLoop(h, ps, 1, <<>>, 0, <<>>)

\* The print loop of script 2's main: the lines printed and the exception raised.
RECURSIVE ReportLoop2(_, _, _, _)
ReportLoop2(h, ps, i, out) ==
    IF i > Len(ps)
    THEN [out |-> out, err |-> ""]
    ELSE
        LET patient == h[ps[i]]
            Missing(key) == key \notin DOMAIN patient
        IN  IF Missing("name") THEN [out |-> out, err |-> "KeyError: 'name'"]
            ELSE IF Missing("medication") THEN [out |-> out, err |-> "KeyError: 'medication'"]
            ELSE IF Missing("base_dosage") THEN [out |-> out, err |-> "KeyError: 'base_dosage'"]
            ELSE IF Missing("final_dosage") THEN [out |-> out, err |-> "KeyError: 'final_dosage'"]
            ELSE
                LET o1 == Append(out, Line("Name: , Medication: , Base Dosage: , Final Dosage: ", ps[i]))
                IN  IF Missing("loading_dose_applied")
                    THEN [out |-> o1, err |-> "KeyError: 'loading_dose_applied'"]
                    ELSE
                        LET o2 == IF Truthy(patient["loading_dose_applied"])
                                  THEN Append(o1, Line("  * Loading dose applied", ps[i]))
                                  ELSE o1
                        IN  IF Missing("warnings")
                            THEN [out |-> o2, err |-> "KeyError: 'warnings'"]
                            ELSE
                                LET o3 == IF Truthy(patient["warnings"])
                                          THEN Append(o2, Line("  * Warnings: ", ps[i]))
                                          ELSE o2
                                IN  ReportLoop2(h, ps, i + 1, o3)

-----------------------------------------------------------------------------
(* load_patient_data, the same function in both scripts. *)

\* A loader with no except clause: the failure propagates.
load_patient_data_unguarded(f) ==
    CASE f.kind = "absent"  -> [ret |-> <<>>, out |-> <<>>, err |-> "FileNotFoundError"]
      [] f.kind = "invalid" -> [ret |-> <<>>, out |-> <<>>, err |-> "JSONDecodeError"]
      [] OTHER              -> [ret |-> f.content, out |-> <<>>, err |-> ""]

\* load_patient_data(filepath): the list returned, the lines printed, the
\* exception raised ("" when none).
load_patient_data(f) ==
    CASE f.kind = "absent" ->
            [ret |-> <<>>, out |-> <<Line("Error: The file was not found.", 0)>>, err |-> ""]
      [] f.kind = "invalid" ->
            [ret |-> <<>>, out |-> <<Line("Error: The file contains invalid JSON.", 0)>>, err |-> ""]
      [] OTHER ->
            [ret |-> f.content, out |-> <<>>, err |-> ""]

-----------------------------------------------------------------------------
(* Script 1 values: [tag, n, chars]; a str is its sequence of characters,  *)
(* a float is held in tenths (179 is 17.9).                                *)

P(tag, n, chars) == [tag |-> tag, n |-> n, chars |-> chars]
PInt(n)      == P("int", n, <<>>)
PFloat(n)    == P("float", n, <<>>)
PNaN         == P("nan", 0, <<>>)
PStr(chars)  == P("str", 0, chars)
PNone        == P("none", 0, <<>>)

LowerCase == <<"a", "b", "l">>
UpperCase == <<"A", "B", "L">>
Digits    == <<"0", "1", "2", "3", "4", "5", "6", "7", "8", "9">>

IndexIn(s, c) == CHOOSE i \in 1..Len(s) : s[i] = c
IsCased(c) == c \in Range(LowerCase) \cup Range(UpperCase)
ToUpper(c) == IF c \in Range(LowerCase) THEN UpperCase[IndexIn(LowerCase, c)] ELSE c
ToLower(c) == IF c \in Range(UpperCase) THEN LowerCase[IndexIn(UpperCase, c)] ELSE c

\* str.title(): a cased character is upper-cased when it follows an uncased
\* one (or starts the string) and lower-cased otherwise.
RECURSIVE TitleFrom(_, _, _)
TitleFrom(s, i, prevCased) ==
    IF i > Len(s) THEN <<>>
    ELSE <<IF prevCased THEN ToLower(s[i]) ELSE ToUpper(s[i])>>
         \o TitleFrom(s, i + 1, IsCased(s[i]))

Title(s) == TitleFrom(s, 1, FALSE)

RECURSIVE Decimal(_)
Decimal(s) ==
    IF s = <<>> THEN 0
    ELSE Decimal(SubSeq(s, 1, Len(s) - 1)) * 10 + (IndexIn(Digits, s[Len(s)]) - 1)

\* int(v): the integer, or the exception raised.  A str converts when it is a
\* non-empty run of digits (signs, blanks and underscores are not in the
\* model's alphabet); a float is truncated toward zero.
PyInt(v) ==
    CASE v.tag = "int"   -> [val |-> v.n, err |-> ""]
      [] v.tag = "float" -> [val |-> IF v.n >= 0 THEN v.n \div 10 ELSE -((-v.n) \div 10),
                             err |-> ""]
      [] v.tag = "str"   -> IF v.chars /= <<>> /\ \A i \in 1..Len(v.chars) : v.chars[i] \in Range(Digits)
                            THEN [val |-> Decimal(v.chars), err |-> ""]
                            ELSE [val |-> 0, err |-> "ValueError: invalid literal for int()"]
      [] v.tag = "nan"   -> [val |-> 0, err |-> "ValueError: cannot convert float NaN to integer"]
      [] OTHER           -> [val |-> 0, err |-> "TypeError: int() argument"]

\* the deduplication key of clean_patient_data
Key(patient) ==
    <<Get(patient, "name", PNone), Get(patient, "age", PNone), Get(patient, "diagnosis", PNone)>>

\* The loop of clean_patient_data: `seen` is a new empty set in every iteration.
RECURSIVE CleanLoop(_, _, _, _)
CleanLoop(h, ps, i, cleaned) ==
    IF i > Len(ps)
    THEN [heap |-> h, ret |-> cleaned, err |-> ""]
    ELSE
        LET p == ps[i]
            Raise(hh, e) == [heap |-> hh, ret |-> <<>>, err |-> e]
        IN  IF "name" \notin DOMAIN h[p]
            THEN Raise(h, "KeyError: 'name'")
            ELSE IF h[p]["name"].tag /= "str"
            THEN Raise(h, "AttributeError: title")
            ELSE
                LET d1   == SetItem(h[p], "name", PStr(Title(h[p]["name"].chars)))
                    h1   == [h EXCEPT ![p] = d1]
                    age0 == Get(d1, "age", PInt(0))
                    age  == IF age0.tag = "nan" THEN PInt(0) ELSE age0
                    conv == PyInt(age)
                IN  IF conv.err /= ""
                    THEN Raise(h1, conv.err)
                    ELSE
                        LET d2   == SetItem(d1, "age", PInt(conv.val))
                            h2   == [h1 EXCEPT ![p] = d2]
                            seen == {}
                            c1   == IF Key(d2) \notin seen THEN Append(cleaned, p) ELSE cleaned
                            c2   == IF d2["age"].n >= 18 THEN Append(c1, p) ELSE c1
                        IN  CleanLoop(h2, ps, i + 1, c2)

\* clean_patient_data(patients): the heap afterwards (the input dicts are
\* changed in place), the list returned, the exception raised ("" when none).
clean_patient_data(h, ps) ==
    LET r == CleanLoop(h, ps, 1, <<>>)
    IN  IF r.err = "" /\ r.ret = <<>> THEN [r EXCEPT !.ret = <<>>] ELSE r

\* The print loop of script 1's main.
RECURSIVE ReportLoop1(_, _, _, _)
ReportLoop1(h, ps, i, out) ==
    IF i > Len(ps)
    THEN [out |-> out, err |-> ""]
    ELSE
        LET patient == h[ps[i]]
        IN  IF "name" \notin DOMAIN patient THEN [out |-> out, err |-> "KeyError: 'name'"]
            ELSE IF "age" \notin DOMAIN patient THEN [out |-> out, err |-> "KeyError: 'age'"]
            ELSE IF "diagnosis" \notin DOMAIN patient
            THEN [out |-> out, err |-> "KeyError: 'diagnosis'"]
            ELSE ReportLoop1(h, ps, i + 1, Append(out, Line("Name: , Age: , Diagnosis: ", ps[i])))

-----------------------------------------------------------------------------
(* The input files.  A field of a record is sound when it is what the      *)
(* script's input format describes; the records tried have at most one     *)
(* field that is absent or unsound.                                        *)

Fields1 == {"name", "age", "diagnosis"}

Values1 ==
    [key \in Fields1 |->
        CASE key = "name"      -> {PStr(<<"a", "l", " ", "b">>), PStr(<<"A", "L", " ", "B">>)}
          [] key = "age"       -> {PInt(32), PStr(<<"3", "2">>), PStr(<<"1", "0">>), PFloat(179),
                                   PStr(<<"a", "b">>), PNaN}
          [] key = "diagnosis" -> {PStr(<<"f", "l", "u">>)}]

Sound1 ==
    [key \in Fields1 |->
        CASE key = "age" -> {PInt(32), PStr(<<"3", "2">>), PStr(<<"1", "0">>), PFloat(179)}
          [] OTHER       -> Values1[key]]

Fields2 == {"name", "weight", "medication", "is_first_dose"}

Values2 ==
    [key \in Fields2 |->
        CASE key = "name"          -> {Str("Al")}
          [] key = "weight"        -> {Num(70 * Scale), Num(0), Str("70")}
          [] key = "medication"    -> {Str("amiodarone"), Str("epinephrine"), Str("fentanyl"),
                                       Str("fentynal"), Str("")}
          [] key = "is_first_dose" -> {Bool(TRUE), Bool(FALSE), None, Str("yes")}]

Sound2 ==
    [key \in Fields2 |->
        CASE key = "weight"        -> {Num(70 * Scale)}
          [] key = "medication"    -> Values2[key] \ {Str("")}
          [] key = "is_first_dose" -> {Bool(TRUE), Bool(FALSE)}
          [] OTHER                 -> Values2[key]]

\* The dicts over `fields` with at most one field absent or unsound.
Records(fields, values, sound) ==
    UNION { {r \in [D -> UNION {values[k] : k \in D}] :
                /\ \A k \in D : r[k] \in values[k]
                /\ Cardinality((fields \ D) \cup {k \in D : r[k] \notin sound[k]}) <= 1}
            : D \in SUBSET fields }

Records1 == Records(Fields1, Values1, Sound1)
Records2 == Records(Fields2, Values2, Sound2)

Lists(S) == UNION {[1..n -> S] : n \in 0..MaxPatients}

Files(S) ==
    {[kind |-> "absent", content |-> <<>>], [kind |-> "invalid", content |-> <<>>]}
    \cup {[kind |-> "json", content |-> c] : c \in Lists(S)}

-----------------------------------------------------------------------------
(* main() of each script, step by step. *)

Init ==
    /\ script \in {1, 2}
    /\ file \in Files(IF script = 1 THEN Records1 ELSE Records2)
    /\ pc = "start"
    /\ heap = <<>>
    /\ patients = <<>>
    /\ transformed = <<>>
    /\ total_medication = 0
    /\ bound = {}
    /\ stdout = <<>>
    /\ err = ""

\* patients = load_patient_data(data_path): the parsed dicts are new objects.
MainLoad ==
    /\ pc = "start"
    /\ LET r == load_patient_data(file)
       IN  IF r.err /= ""
           THEN /\ pc' = "load_raised"
                /\ err' = r.err
                /\ stdout' = stdout \o r.out
                /\ UNCHANGED <<heap, patients, bound>>
           ELSE /\ pc' = "loaded"
                /\ heap' = r.ret
                /\ patients' = [i \in 1..Len(r.ret) |-> i]
                /\ bound' = bound \cup {"patients"}
                /\ stdout' = stdout \o r.out
                /\ UNCHANGED err
    /\ UNCHANGED <<script, file, transformed, total_medication>>

\* if not patients: print(...); return
MainHalt ==
    /\ pc = "loaded"
    /\ patients = <<>>
    /\ pc' = "halted"
    /\ stdout' = Append(stdout, Line("Error: Failed to load patient data. Exiting.", 0))
    /\ UNCHANGED <<script, file, heap, patients, transformed, total_medication, bound, err>>

\* cleaned_patients = clean_patient_data(patients)
MainClean ==
    /\ pc = "loaded"
    /\ script = 1
    /\ patients /= <<>>
    /\ LET r == clean_patient_data(heap, patients)
       IN  /\ heap' = r.heap
           /\ IF r.err /= ""
              THEN /\ pc' = "transform_raised"
                   /\ err' = r.err
                   /\ UNCHANGED <<transformed, bound>>
              ELSE /\ pc' = "transformed"
                   /\ transformed' = r.ret
                   /\ bound' = bound \cup {"cleaned_patients"}
                   /\ UNCHANGED err
    /\ UNCHANGED <<script, file, patients, total_medication, stdout>>

\* patients_with_dosages, total_medication = calculate_all_dosages(patients)
MainCalculate ==
    /\ pc = "loaded"
    /\ script = 2
    /\ patients /= <<>>
    /\ LET r == calculate_all_dosages(heap, patients)
       IN  /\ heap' = r.heap
           /\ stdout' = stdout \o r.out
           /\ IF r.err /= ""
              THEN /\ pc' = "transform_raised"
                   /\ err' = r.err
                   /\ UNCHANGED <<transformed, total_medication, bound>>
              ELSE /\ pc' = "transformed"
                   /\ transformed' = r.ret
                   /\ total_medication' = r.total
                   /\ bound' = bound \cup {"patients_with_dosages", "total_medication"}
                   /\ UNCHANGED err
    /\ UNCHANGED <<script, file, patients>>

\* print("Cleaned Patient Data:") and the loop over cleaned_patients
MainReport1 ==
    /\ pc = "transformed"
    /\ script = 1
    /\ LET r == ReportLoop1(heap, transformed, 1,
                            Append(stdout, Line("Cleaned Patient Data:", 0)))
       IN  /\ stdout' = r.out
           /\ err' = r.err
           /\ pc' = IF r.err /= "" THEN "report_raised" ELSE "reported"
    /\ UNCHANGED <<script, file, heap, patients, transformed, total_medication, bound>>

\* print("Medication Dosages:"), the loop over patients_with_dosages, the total
MainReport2 ==
    /\ pc = "transformed"
    /\ script = 2
    /\ LET r == ReportLoop2(heap, transformed, 1,
                            Append(stdout, Line("Medication Dosages:", 0)))
       IN  /\ err' = r.err
           /\ IF r.err /= ""
              THEN /\ pc' = "report_raised"
                   /\ stdout' = r.out
              ELSE /\ pc' = "reported"
                   /\ stdout' = Append(r.out, Line("Total medication needed: ", 0))
    /\ UNCHANGED <<script, file, heap, patients, transformed, total_medication, bound>>

Next ==
    \/ MainLoad
    \/ MainHalt
    \/ MainClean
    \/ MainCalculate
    \/ MainReport1
    \/ MainReport2

Spec == Init /\ [][Next]_vars

-----------------------------------------------------------------------------
(* Properties. *)

\* The i-th record of the input file, as it was read.
Input(i) == file.content[i]

\* The transform stage has run to its end, by returning or by raising.
TransformDone == pc \in {"transform_raised", "transformed", "reported", "report_raised"}

\* The transform stage has returned to main.
TransformReturned == pc \in {"transformed", "reported", "report_raised"}

Output(j) == heap[transformed[j]]

\* C1: no two records of the list clean_patient_data returns share the triple
\* (title-cased name, coerced age, diagnosis).
C1_NoDuplicateKeys ==
    (script = 1 /\ TransformReturned) =>
        \A i, j \in 1..Len(transformed) : i /= j => Key(Output(i)) /= Key(Output(j))

\* C2: every record of the list clean_patient_data returns has an integer
\* age >= 18.
C2_OutputIsAdult ==
    (script = 1 /\ TransformReturned) =>
        \A j \in 1..Len(transformed) : Output(j)["age"].tag = "int" /\ Output(j)["age"].n >= 18

RECURSIVE SumFinalDosage(_, _)
SumFinalDosage(h, refs) ==
    IF refs = <<>> THEN 0
    ELSE NumVal(h[Head(refs)]["final_dosage"]) + SumFinalDosage(h, Tail(refs))

\* C3: the total calculate_all_dosages returns is the sum of final_dosage over
\* the records it returns, each counted once.
C3_TotalIsSum ==
    (script = 2 /\ TransformReturned) =>
        total_medication = SumFinalDosage(heap, transformed)

\* A record the claim C4 calls invalid.
RejectedByC4(rec) ==
    \/ "weight" \notin DOMAIN rec
    \/ ~IsIntOrFloat(rec["weight"])
    \/ NumVal(rec["weight"]) <= 0
    \/ "medication" \notin DOMAIN rec
    \/ rec["medication"] = Str("")
    \/ "is_first_dose" \notin DOMAIN rec
    \/ rec["is_first_dose"].tag /= "bool"

\* C4: calculate_dosage fails for every record whose weight is absent, not a
\* number or <= 0, whose medication is absent or empty, or whose is_first_dose
\* is absent or not a boolean: a batch holding such a record never returns.
C4_InvalidRecordRejected ==
    (script = 2 /\ TransformDone /\ \E i \in 1..Len(file.content) : RejectedByC4(Input(i))) =>
        pc = "transform_raised"

\* The age of a record is absent or not a number's representation.
AgeUnusable(rec) ==
    \/ "age" \notin DOMAIN rec
    \/ rec["age"].tag = "nan"
    \/ rec["age"].tag = "str" /\ PyInt(rec["age"]).err /= ""

\* C5: in a batch whose records all have a name, a record whose age is absent
\* or not a number raises nothing, gets age 0 and is left out of the list
\* clean_patient_data returns.
C5_UnusableAgeDropped ==
    (script = 1 /\ TransformDone /\ \A i \in 1..Len(file.content) : "name" \in DOMAIN Input(i)) =>
        /\ pc /= "transform_raised"
        /\ \A i \in 1..Len(file.content) :
              AgeUnusable(Input(i)) =>
                  heap[patients[i]]["age"] = PInt(0) /\ patients[i] \notin Range(transformed)

\* C6: for every record calculate_dosage accepts, base_dosage is weight *
\* factor, and loading_dose_applied is true with final_dosage = 2 * base_dosage
\* exactly when is_first_dose is true and the medication is in the
\* loading-dose set; otherwise it is false and final_dosage = base_dosage.
C6_LoadingDoseIff ==
    (script = 2 /\ TransformReturned) =>
        \A j \in 1..Len(transformed) :
            LET in    == Input(j)
                out   == Output(j)
                base  == (in["weight"].n * Factor(in["medication"])) \div Scale
                first == "is_first_dose" \in DOMAIN in /\ in["is_first_dose"] = Bool(TRUE)
                member == in["medication"].s \in LOADING_DOSE_MEDICATIONS
            IN  /\ out["base_dosage"] = Num(base)
                /\ IF first /\ member
                   THEN out["loading_dose_applied"] = Bool(TRUE)
                        /\ out["final_dosage"] = Num(2 * base)
                   ELSE out["loading_dose_applied"] = Bool(FALSE)
                        /\ out["final_dosage"] = Num(base)

\* A batch where a loading dose was applied to one record (amiodarone, 70 kg:
\* 350 mg doubled to 700 mg) and withheld from a first dose of a medication
\* outside the set.
C6_Witness ==
    /\ script = 2 /\ pc = "transformed"
    /\ \E j \in 1..Len(transformed) :
          /\ Output(j)["loading_dose_applied"] = Bool(TRUE)
          /\ Output(j)["base_dosage"] = Num(350 * Scale)
          /\ Output(j)["final_dosage"] = Num(700 * Scale)
    /\ \E j \in 1..Len(transformed) :
          /\ Input(j)["medication"] = Str("epinephrine")
          /\ "is_first_dose" \in DOMAIN Input(j) /\ Input(j)["is_first_dose"] = Bool(TRUE)
          /\ Output(j)["loading_dose_applied"] = Bool(FALSE)
          /\ Output(j)["final_dosage"] = Num(700)

DerivedKeys == {"base_dosage", "loading_dose_applied", "final_dosage", "warnings"}

\* C7: calculate_dosage leaves its input dict as it was, whether it returns or
\* raises, and the dict it returns is another object, equal to the input on
\* every input key and holding the four derived keys besides.
C7_InputUnmodified ==
    (script = 2 /\ TransformDone) =>
        /\ \A i \in 1..Len(patients) : heap[patients[i]] = Input(i)
        /\ TransformReturned =>
              \A j \in 1..Len(transformed) :
                  /\ transformed[j] \notin Range(patients)
                  /\ DOMAIN Output(j) = DOMAIN Input(j) \cup DerivedKeys
                  /\ \A k \in DOMAIN Input(j) : Output(j)[k] = Input(j)[k]

\* Two records were augmented and the input dicts still lack the derived keys.
C7_Witness ==
    /\ script = 2 /\ pc = "transformed"
    /\ Len(transformed) = 2
    /\ \A i \in 1..Len(patients) : DOMAIN heap[patients[i]] \cap DerivedKeys = {}
    /\ \A j \in 1..Len(transformed) : DerivedKeys \subseteq DOMAIN Output(j)

\* The lines main prints once calculate_all_dosages has returned.
ReportLines ==
    {"Medication Dosages:", "Name: , Medication: , Base Dosage: , Final Dosage: ",
     "  * Loading dose applied", "  * Warnings: ", "Total medication needed: "}

\* C8: when calculate_dosage fails for a record of the batch, at any position,
\* calculate_all_dosages raises: main gets no list and no total and prints no
\* per-record line and no total line.
C8_FailureAbortsBatch ==
    (/\ script = 2 /\ TransformDone
     /\ \E i \in 1..Len(file.content) : calculate_dosage(file.content, i).err /= "") =>
        /\ pc = "transform_raised"
        /\ err /= ""
        /\ bound \cap {"patients_with_dosages", "total_medication"} = {}
        /\ \A n \in 1..Len(stdout) : stdout[n].kind \notin ReportLines

\* The second record of a batch failed after the first had been augmented.
C8_Witness ==
    /\ script = 2 /\ pc = "transform_raised"
    /\ Len(file.content) = 2
    /\ calculate_dosage(file.content, 1).err = ""
    /\ calculate_dosage(file.content, 2).err /= ""
    /\ Len(heap) = 4

\* C9: when the input file is absent or is not valid JSON, load_patient_data
\* prints the failure, returns an empty list and raises nothing, and main
\* prints its diagnostic and returns: neither the transform stage nor the print
\* loop runs.
C9_LoadFailureHalts ==
    file.kind \in {"absent", "invalid"} =>
        /\ pc \in {"start", "loaded", "halted"}
        /\ err = ""
        /\ bound \subseteq {"patients"}
        /\ pc /= "start" =>
              /\ patients = <<>>
              /\ stdout[1] = Line(IF file.kind = "absent"
                                  THEN "Error: The file was not found."
                                  ELSE "Error: The file contains invalid JSON.", 0)
        /\ pc = "loaded" => Len(stdout) = 1
        /\ pc = "halted" =>
              /\ Len(stdout) = 2
              /\ stdout[2] = Line("Error: Failed to load patient data. Exiting.", 0)

\* main has halted on a file that was not valid JSON.
C9_Witness ==
    /\ file.kind = "invalid"
    /\ pc = "halted"
    /\ Len(stdout) = 2

\* C10: the print loop of main never raises on a record of the transformed
\* list, whichever expected field the record lacks.
C10_ReporterNeverRaises == pc /= "report_raised"

====
